---- MODULE Spec2Model ----
(***************************************************************************)
(* A model of contaminante/utils.py: the design-matrix builder build_X,    *)
(* the aperture corrector build_lc, the per-pixel engine build_model and   *)
(* the segment loop of get_centroid_plot.                                  *)
(*                                                                         *)
(* Numbers.  Times are integers in units of 0.0002 day, so that the        *)
(* nominal cadence 0.0202 d is 101 units, the gap threshold 0.0202 * 10 is *)
(* 1010 units and the default spline period of 2 d is 10000 units.         *)
(* Floats that may be NaN or infinite are records [kind, v]; a design-     *)
(* matrix column carries the name of its basis term, its segment and the   *)
(* numeric prefactor of each of its entries (the membership mask of        *)
(* np.in1d, the flux weight, the ones, the template), the polynomial or    *)
(* spline factor itself being named by the term.                           *)
(***************************************************************************)
EXTENDS Integers, Sequences, FiniteSets, TLC

\* ------------------------------------------------------------------ bounds
MaxT == 4
MaxCbv == 1
MaxStamps == 2
NPix == 2

\* ------------------------------------------------------- program constants
NominalCadence == 101
GapMultiple == 10
OutlierLimit == 10
MinKnots == 4
DefaultSplinePeriod == 10000
BkgComponents == 3
SignificanceThreshold == 5
FloatMax == 1000000

GapThreshold == NominalCadence * GapMultiple

\* ----------------------------------------------------------------- helpers
Abs(n) == IF n < 0 THEN -n ELSE n

MaxOf(a, b) == IF a >= b THEN a ELSE b

RECURSIVE SumSeq(_)
SumSeq(s) == IF s = <<>> THEN 0 ELSE s[1] + SumSeq(Tail(s))

RECURSIVE SortedSeq(_)
SortedSeq(S) ==
    IF S = {} THEN <<>>
    ELSE LET m == CHOOSE x \in S : \A y \in S : x <= y
         IN  <<m>> \o SortedSeq(S \ {m})

RECURSIVE Flatten(_)
Flatten(ss) == IF ss = <<>> THEN <<>> ELSE ss[1] \o Flatten(Tail(ss))

\* ------------------------------------------------------------------ floats
Fin(n) == [kind |-> "fin", v |-> n]
NaN == [kind |-> "nan", v |-> 0]
PosInf == [kind |-> "inf", v |-> 1]
NegInf == [kind |-> "inf", v |-> -1]

IsFinite(x) == x.kind = "fin"

\* np.nan_to_num: NaN becomes 0, an infinity the largest finite float of its
\* sign, a finite value itself.
NanToNum(x) ==
    CASE x.kind = "nan" -> 0
      [] x.kind = "inf" -> x.v * FloatMax
      [] OTHER -> x.v

\* ------------------------------------------------------- build_X: cleaning
\* r = np.nan_to_num(tpf.pos_corr1); r[np.abs(r) > 10] = 0
CleanR(pos_corr1) ==
    LET r0 == [i \in 1..Len(pos_corr1) |-> NanToNum(pos_corr1[i])]
    IN  [i \in 1..Len(r0) |-> IF Abs(r0[i]) > OutlierLimit THEN 0 ELSE r0[i]]

\* c = np.nan_to_num(tpf.pos_corr2); c[np.abs(r) > 10] = 0, where r is the
\* row array that the line before has already cleaned.
CleanC(pos_corr1, pos_corr2) ==
    LET r  == CleanR(pos_corr1)
        c0 == [i \in 1..Len(pos_corr2) |-> NanToNum(pos_corr2[i])]
    IN  [i \in 1..Len(c0) |-> IF Abs(r[i]) > OutlierLimit THEN 0 ELSE c0[i]]

\* --------------------------------------------------- build_X: segmentation
\* np.where(np.diff(time) > 0.0202 * 10)[0]: the 0-based indices i with
\* time[i+1] - time[i] above the threshold.
GapIndices(time) ==
    {i \in 0..(Len(time) - 2) : time[i + 2] - time[i + 1] > GapThreshold}

\* breaks = np.where(...)[0] - 1; breaks = breaks[breaks > 0]
Breaks(time) == {b \in {i - 1 : i \in GapIndices(time)} : b > 0}

\* np.array_split(time, breaks): time[0:b1], time[b1:b2], ..., time[bk:]
ArraySplit(time, breaks) ==
    LET bs     == SortedSeq(breaks)
        starts == <<0>> \o bs
        ends   == bs \o <<Len(time)>>
    IN  [k \in 1..(Len(bs) + 1) |-> SubSeq(time, starts[k] + 1, ends[k])]

\* np.in1d(time, t), as 0/1
In1d(time, t) ==
    [i \in 1..Len(time) |->
        IF \E j \in 1..Len(t) : t[j] = time[i] THEN 1 ELSE 0]

\* ---------------------------------------------------- build_X: the blocks
TimeTrendTerms == <<"ts0", "ts1", "ts1**2">>

CentroidTerms ==
    <<"rs0", "rs1", "cs1", "rs1*cs1", "rs1**2", "cs1**2", "rs1**2*cs1",
      "rs1*cs1**2", "rs1**2*cs1**2", "rs1**3*cs1**3", "rs1**3*cs1**2",
      "rs1**3*cs1", "rs1**3", "cs1**3", "cs1**3*rs1", "cs1**3*rs1**2">>

\* if r.sum() == 0: the time-trend block, else the centroid block
UseTimeTrend(r) == SumSeq(r) = 0

\* np.vstack([...]).T: the terms in order, each with one column per segment;
\* every entry carries the factor np.in1d(time, t) of its segment.
Centroids(time, r, breaks) ==
    LET segs  == ArraySplit(time, breaks)
        n     == Len(segs)
        terms == IF UseTimeTrend(r) THEN TimeTrendTerms ELSE CentroidTerms
    IN  [k \in 1..(Len(terms) * n) |->
            LET s == ((k - 1) % n) + 1
            IN  [term |-> terms[((k - 1) \div n) + 1], seg |-> s,
                 vals |-> In1d(time, segs[s])]]

\* n_knots = np.max([4, int((time[-1] - time[0]) // spline_period)])
Knots(time, spline_period) ==
    MaxOf(MinKnots, (time[Len(time)] - time[1]) \div spline_period)

\* a block of n named columns whose entries have prefactor 1
Block(name, n, T) ==
    [k \in 1..n |-> [term |-> name, seg |-> k, vals |-> [i \in 1..T |-> 1]]]

\* np.atleast_2d(flux).T * A
Scale(flux, A) ==
    [k \in 1..Len(A) |->
        [A[k] EXCEPT !.vals = [i \in 1..Len(flux) |-> flux[i] * A[k].vals[i]]]]

\* the columns np.hstack appends after the weighting: the ones, and the
\* template when one is given (t_model = <<>> stands for None)
Trailing(T, t_model) ==
    LET ones == [term |-> "ones", seg |-> 0, vals |-> [i \in 1..T |-> 1]]
    IN  IF t_model /= <<>>
        THEN <<ones, [term |-> "t_model", seg |-> 0, vals |-> t_model]>>
        ELSE <<ones>>

\* the matrix before the weighting: centroids, then cbvs, background, spline
Systematics(tpf, background, cbvs, spline, spline_period) ==
    LET T  == Len(tpf.time)
        r  == CleanR(tpf.pos_corr1)
        A0 == Centroids(tpf.time, r, Breaks(tpf.time))
        A1 == IF cbvs > 0 THEN A0 \o Block("cbv", cbvs, T) ELSE A0
        A2 == IF background THEN A1 \o Block("bkg", BkgComponents, T) ELSE A1
    IN  IF spline
        THEN A2 \o Block("spline", Knots(tpf.time, spline_period), T)
        ELSE A2

\* a variant that weights the appended columns as well
BuildXWeightsAll(tpf, flux, t_model, background, cbvs, spline, spline_period) ==
    Scale(flux, Systematics(tpf, background, cbvs, spline, spline_period)
                    \o Trailing(Len(tpf.time), t_model))

BuildX(tpf, flux, t_model, background, cbvs, spline, spline_period) ==
    Scale(flux, Systematics(tpf, background, cbvs, spline, spline_period))
        \o Trailing(Len(tpf.time), t_model)

\* build_lc: SA = build_X(tpf, ones, ...); SA = SA[:, :-1]
BuildLcMatrix(tpf, background, cbvs, spline, spline_period) ==
    LET SA == BuildX(tpf, [i \in 1..Len(tpf.time) |-> 1], <<>>, background,
                     cbvs, spline, spline_period)
    IN  SubSeq(SA, 1, Len(SA) - 1)

\* =================================================================== state
VARIABLES
    \* a call of build_X or build_lc
    xpc,          \* "start", "built" (build_X returned), "lc" (build_lc's matrix)
    tpf,          \* the stamp: time, pos_corr1, pos_corr2
    args,         \* flux, t_model, background, cbvs, spline, spline_period
    r, c,         \* the cleaned pointing corrections
    breaks,       \* the split indices kept
    SA,           \* the matrix
    \* a call of search or get_centroid_plot
    pc,           \* "idle", "loop", "done", "error", "returned"
    targetid, mission,
    search_func,  \* the function a direct call of search was given ("" for none)
    calls,        \* the search functions invoked so far
    sr,           \* the result of the stamp search (target names)
    err,          \* the exception raised, "" for none
    ntpfs, idx,   \* len(tpfs) and the number of stamps the loop has taken
    skipped,      \* how many of them were skipped
    target, contaminator,
    coords_weights, coords_ra, coords_dec, ra_target, dec_target,
    ra, dec,      \* the contaminant position
    folded,       \* the light curves folded into the figure
    \* a call of build_model, and the mask its caller takes of the result
    mpc,          \* "start", "loop", "returned", "masked", "error"
    pixels,       \* the stamp's pixels: flux finite anywhere, the fit's outcome
    margs,        \* errors, t_model (given or not)
    jdx,          \* the number of pixels the loop has taken
    model, model_err, transit_pixels, transit_pixels_err,
    returned,     \* the names of the arrays returned
    contaminant_aper

xvars == <<xpc, tpf, args, r, c, breaks, SA>>

accumulators ==
    <<target, contaminator, coords_weights, coords_ra, coords_dec,
      ra_target, dec_target>>

cvars ==
    <<pc, targetid, mission, search_func, calls, sr, err, ntpfs, idx, skipped,
      accumulators, ra, dec, folded>>

arrays == <<model, model_err, transit_pixels, transit_pixels_err>>

mvars == <<mpc, pixels, margs, jdx, arrays, returned, contaminant_aper>>

vars == <<xvars, cvars, mvars>>

Pixels == 1..NPix

\* ------------------------------------------------------ build_X's inputs
DiffSet == {NominalCadence, 22 * NominalCadence}

\* the times of T cadences that start at 0 and are d[i] apart
TimeOf(d) == [i \in 1..(Len(d) + 1) |-> SumSeq(SubSeq(d, 1, i - 1))]

Times(T) == {TimeOf(d) : d \in [1..(T - 1) -> DiffSet]}

Ramp(T) == [i \in 1..T |-> i + 1]

Ones(T) == [i \in 1..T |-> 1]

Template(T) == [i \in 1..T |-> IF i = 2 THEN -1 ELSE 0]

\* (pos_corr1, pos_corr2) of one cadence
PosPairs ==
    { <<Fin(0), Fin(0)>>, <<Fin(1), Fin(0)>>, <<Fin(-1), Fin(1)>>,
      <<NaN, Fin(11)>>, <<Fin(11), NaN>>, <<PosInf, NegInf>> }

PlainPairs == { <<Fin(0), Fin(0)>>, <<Fin(1), Fin(1)>> }

Stamps(T, pairs) ==
    { [time |-> t,
       pos_corr1 |-> [i \in 1..T |-> p[i][1]],
       pos_corr2 |-> [i \in 1..T |-> p[i][2]]] :
      t \in Times(T), p \in [1..T -> pairs] }

DefaultArgs(T) ==
    [flux |-> Ramp(T), t_model |-> <<>>, background |-> FALSE, cbvs |-> 0,
     spline |-> TRUE, spline_period |-> DefaultSplinePeriod]

AllArgs(T) ==
    [flux : {Ones(T), Ramp(T)}, t_model : {<<>>, Template(T)},
     background : BOOLEAN, cbvs : 0..MaxCbv, spline : BOOLEAN,
     spline_period : {DefaultSplinePeriod, 4 * NominalCadence}]

\* ------------------------------------------- the localizer's initial state
CInit ==
    /\ pc = "idle" /\ search_func = "" /\ calls = <<>> /\ sr = <<>> /\ err = ""
    /\ ntpfs = 0 /\ idx = 0 /\ skipped = 0
    /\ target = <<>> /\ contaminator = <<>>
    /\ coords_weights = <<>> /\ coords_ra = <<>> /\ coords_dec = <<>>
    /\ ra_target = <<>> /\ dec_target = <<>>
    /\ ra = <<>> /\ dec = <<>> /\ folded = {}

\* no call of build_model
MOff ==
    /\ mpc = "off" /\ pixels = <<>> /\ margs = <<>> /\ jdx = 0
    /\ model = <<>> /\ model_err = <<>> /\ transit_pixels = <<>>
    /\ transit_pixels_err = <<>> /\ returned = <<>> /\ contaminant_aper = <<>>

\* no call of build_X
XOff ==
    /\ xpc = "off" /\ tpf = <<>> /\ args = <<>>
    /\ r = <<>> /\ c = <<>> /\ breaks = {} /\ SA = <<>>

\* ------------------------------------------------- build_X and build_lc
XInit(T, pairs, argset) ==
    /\ xpc = "start"
    /\ tpf \in Stamps(T, pairs)
    /\ args \in argset
    /\ r = <<>> /\ c = <<>> /\ breaks = {} /\ SA = <<>>

CallBuildX ==
    /\ xpc = "start"
    /\ xpc' = "built"
    /\ r' = CleanR(tpf.pos_corr1)
    /\ c' = CleanC(tpf.pos_corr1, tpf.pos_corr2)
    /\ breaks' = Breaks(tpf.time)
    /\ SA' = BuildX(tpf, args.flux, args.t_model, args.background, args.cbvs,
                    args.spline, args.spline_period)
    /\ UNCHANGED <<tpf, args, cvars, mvars>>

CallBuildLc ==
    /\ xpc = "start"
    /\ xpc' = "lc"
    /\ r' = CleanR(tpf.pos_corr1)
    /\ c' = CleanC(tpf.pos_corr1, tpf.pos_corr2)
    /\ breaks' = Breaks(tpf.time)
    /\ SA' = BuildLcMatrix(tpf, args.background, args.cbvs, args.spline,
                           args.spline_period)
    /\ UNCHANGED <<tpf, args, cvars, mvars>>

NextX == CallBuildX \/ CallBuildLc

\* build_X on every stamp of up to MaxT cadences, default configuration
InitBuildX ==
    /\ \E T \in 1..MaxT : XInit(T, PosPairs, {DefaultArgs(T)})
    /\ CInit /\ targetid = 0 /\ mission = "kepler"
    /\ MOff

SpecBuildX == InitBuildX /\ [][NextX]_vars

\* build_X in every configuration, on stamps with plain pointing corrections
InitAssembly ==
    /\ \E T \in 1..MaxT : XInit(T, PlainPairs, AllArgs(T))
    /\ CInit /\ targetid = 0 /\ mission = "kepler"
    /\ MOff

SpecAssembly == InitAssembly /\ [][NextX]_vars

\* ================================================================== search
SearchFuncs == {"search_targetpixelfile", "search_tesscut", "search_lightcurvefile"}

TargetIds == {12, 120}

Queries == {12}

Missions == {"kepler", "TESS"}

\* a variant that compares the mission as it was given
LowerKeepsCase(m) == m

\* mission.lower()
Lower(m) == IF m = "TESS" THEN "tess" ELSE m

\* background = [True if mission.lower() == 'tess' else False][0]
Background(m) == Lower(m) = "tess"

\* what the archive holds for a query: the target names of the pixel files it
\* returns (their digits, as a number) and the number of cutouts
Archives ==
    [names : UNION {[1..n -> TargetIds] : n \in 0..MaxStamps},
     cutouts : 0..MaxStamps]

\* search: the pixel files whose name has the digits of the target id, or the
\* cutouts; any other search function raises
Search(tid, archive, func) ==
    CASE func = "search_targetpixelfile" ->
            [raised |-> FALSE,
             sr |-> SelectSeq(archive.names, LAMBDA n : n = tid)]
      [] func = "search_tesscut" ->
            [raised |-> FALSE, sr |-> [i \in 1..archive.cutouts |-> tid]]
      [] OTHER -> [raised |-> TRUE, sr |-> <<>>]

\* a call of search with a function it knows
SearchReturns ==
    /\ pc = "idle"
    /\ \E f \in SearchFuncs, a \in Archives :
          LET res == Search(targetid, a, f)
          IN  /\ ~res.raised
              /\ pc' = "returned" /\ sr' = res.sr /\ calls' = <<f>>
              /\ search_func' = f
    /\ UNCHANGED <<targetid, mission, err, ntpfs, idx, skipped, accumulators,
                   ra, dec, folded, xvars, mvars>>

\* a call of search with any other function
SearchRaises ==
    /\ pc = "idle"
    /\ \E f \in SearchFuncs, a \in Archives :
          /\ Search(targetid, a, f).raised
          /\ pc' = "error" /\ err' = "ValueError: Search Function is wrong"
          /\ search_func' = f
    /\ UNCHANGED <<targetid, mission, calls, sr, ntpfs, idx, skipped,
                   accumulators, ra, dec, folded, xvars, mvars>>

\* ============================================== get_centroid_plot: lookup
\* mission is 'tess' and the search found nothing: the cutout search is tried
\* (download_all of an empty result is None, which the loop cannot iterate)
StartTessCut ==
    /\ pc = "idle"
    /\ \E a \in Archives :
          LET first  == Search(targetid, a, "search_targetpixelfile")
              second == Search(targetid, a, "search_tesscut")
          IN  /\ Lower(mission) = "tess" /\ Len(first.sr) = 0
              /\ sr' = first.sr
              /\ calls' = <<"search_targetpixelfile", "search_tesscut">>
              /\ IF Len(second.sr) = 0
                 THEN /\ pc' = "error"
                      /\ err' = "TypeError: 'NoneType' object is not iterable"
                      /\ ntpfs' = 0
                 ELSE /\ pc' = "loop" /\ err' = err
                      /\ ntpfs' = Len(second.sr)
    /\ UNCHANGED <<targetid, mission, search_func, idx, skipped, accumulators,
                   ra, dec, folded, xvars, mvars>>

\* the search found nothing and the mission is not 'tess'
StartNoStamps ==
    /\ pc = "idle"
    /\ \E a \in Archives :
          LET first == Search(targetid, a, "search_targetpixelfile")
          IN  /\ Lower(mission) /= "tess" /\ Len(first.sr) = 0
              /\ sr' = first.sr
              /\ calls' = <<"search_targetpixelfile">>
              /\ pc' = "error"
              /\ err' = "ValueError: No target pixel files exist"
    /\ UNCHANGED <<targetid, mission, search_func, ntpfs, idx, skipped, accumulators,
                   ra, dec, folded, xvars, mvars>>

\* tpfs = sr.download_all()
StartDownload ==
    /\ pc = "idle"
    /\ \E a \in Archives :
          LET first == Search(targetid, a, "search_targetpixelfile")
          IN  /\ Len(first.sr) /= 0
              /\ sr' = first.sr
              /\ calls' = <<"search_targetpixelfile">>
              /\ pc' = "loop"
              /\ ntpfs' = Len(first.sr)
    /\ UNCHANGED <<targetid, mission, search_func, err, idx, skipped, accumulators,
                   ra, dec, folded, xvars, mvars>>

\* ============================================================= build_model
\* a/b of two floats that hold integers (b divides a wherever b is not 0)
Divide(a, b) ==
    IF b = 0
    THEN (IF a = 0 THEN NaN ELSE IF a > 0 THEN PosInf ELSE NegInf)
    ELSE Fin(a \div b)

\* x > n for a float x: false for NaN
Gt(x, n) == \/ x.kind = "fin" /\ x.v > n
            \/ x.kind = "inf" /\ x.v > 0

\* what the solve and the 50 draws give for a pixel: w[-1] and the spread of
\* the drawn last components (positive: the covariance is not singular)
FitOutcomes ==
    { [depth |-> 5, err |-> 1], [depth |-> 12, err |-> 2],
      [depth |-> 7, err |-> 1] }

\* a pixel of the stamp: whether any of its flux values is finite, and what
\* the fit gives if it is fitted
PixelData ==
    {[finite |-> FALSE, fit |-> [depth |-> 5, err |-> 1]]}
        \cup {[finite |-> TRUE, fit |-> f] : f \in FitOutcomes}

\* a variant that skips no pixel
SkipsNone(px) == FALSE

\* if not np.isfinite(f).any(): continue
Skips(px) == ~px.finite

\* what the pixel loop leaves for a pixel: the zeros of np.zeros when it is
\* skipped, else the fit
FitPixel(px) ==
    LET fit == px.fit
    IN
    IF Skips(px)
    THEN [model |-> "zeros", depth |-> 0, err |-> 0]
    ELSE [model |-> "SA.dot(w)", depth |-> fit.depth, err |-> fit.err]

\* build_model with a template and without errors, as get_centroid_plot calls it
BuildModel(px) ==
    LET out == [p \in Pixels |-> FitPixel(px[p])]
    IN  [model              |-> [p \in Pixels |-> out[p].model],
         transit_pixels     |-> [p \in Pixels |-> out[p].depth],
         transit_pixels_err |-> [p \in Pixels |-> out[p].err]]

\* contaminant_aper = (transit_pixels/transit_pixels_err) > 5
ContaminantAper(tp, tpe) ==
    [p \in Pixels |-> Gt(Divide(tp[p], tpe[p]), SignificanceThreshold)]

\* ------------------------------------------------- build_model, by steps
ZeroMap == [p \in Pixels |-> 0]
ZeroSeries == [p \in Pixels |-> "zeros"]

\* model = np.zeros(...); model_err, transit_pixels and transit_pixels_err
\* exist only with errors, or with a template
MEnter ==
    /\ mpc = "start"
    /\ mpc' = "loop"
    /\ model' = ZeroSeries
    /\ model_err' = IF margs.errors THEN ZeroSeries ELSE <<>>
    /\ transit_pixels' = IF margs.t_model THEN ZeroMap ELSE <<>>
    /\ transit_pixels_err' = IF margs.t_model THEN ZeroMap ELSE <<>>
    /\ UNCHANGED <<pixels, margs, jdx, returned, contaminant_aper, xvars, cvars>>

\* the pixel has no finite flux value: continue
PixelSkip ==
    /\ mpc = "loop" /\ jdx < NPix
    /\ Skips(pixels[jdx + 1])
    /\ jdx' = jdx + 1
    /\ UNCHANGED <<mpc, pixels, margs, arrays, returned, contaminant_aper,
                   xvars, cvars>>

\* the pixel is fitted
PixelFit ==
    /\ mpc = "loop" /\ jdx < NPix
    /\ ~Skips(pixels[jdx + 1])
    /\ LET p   == jdx + 1
           out == FitPixel(pixels[p])
       IN  /\ model' = [model EXCEPT ![p] = out.model]
           /\ transit_pixels' =
                 IF margs.t_model
                 THEN [transit_pixels EXCEPT ![p] = out.depth]
                 ELSE transit_pixels
           /\ transit_pixels_err' =
                 IF margs.t_model
                 THEN [transit_pixels_err EXCEPT ![p] = out.err]
                 ELSE transit_pixels_err
           /\ model_err' =
                 IF margs.errors
                 THEN [model_err EXCEPT ![p] = "median - percentile16"]
                 ELSE model_err
    /\ jdx' = jdx + 1
    /\ UNCHANGED <<mpc, pixels, margs, returned, contaminant_aper, xvars, cvars>>

\* solve raises on a singular matrix: the call returns nothing
PixelSolveRaises ==
    /\ mpc = "loop" /\ jdx < NPix
    /\ ~Skips(pixels[jdx + 1])
    /\ mpc' = "error"
    /\ UNCHANGED <<pixels, margs, jdx, arrays, returned, contaminant_aper,
                   xvars, cvars>>

\* the return statements
MReturn ==
    /\ mpc = "loop" /\ jdx = NPix
    /\ mpc' = "returned"
    /\ returned' =
          <<"model">>
          \o (IF margs.errors THEN <<"model_err">> ELSE <<>>)
          \o (IF margs.t_model
              THEN <<"transit_pixels", "transit_pixels_err">> ELSE <<>>)
    /\ UNCHANGED <<pixels, margs, jdx, arrays, contaminant_aper, xvars, cvars>>

\* get_centroid_plot's use of the three arrays it asked for
Threshold ==
    /\ mpc = "returned"
    /\ margs.t_model /\ ~margs.errors
    /\ mpc' = "masked"
    /\ contaminant_aper' = ContaminantAper(transit_pixels, transit_pixels_err)
    /\ UNCHANGED <<pixels, margs, jdx, arrays, returned, xvars, cvars>>

NextModel ==
    \/ MEnter \/ PixelSkip \/ PixelFit \/ PixelSolveRaises \/ MReturn
    \/ Threshold

\* ================================================ get_centroid_plot: loop
Frac(n, d) == [kind |-> "fin", num |-> n, den |-> d]
FracNaN == [kind |-> "nan", num |-> 0, den |-> 1]

RECURSIVE Dot(_, _)
Dot(xs, ws) ==
    IF xs = <<>> THEN 0 ELSE xs[1] * ws[1] + Dot(Tail(xs), Tail(ws))

\* a variant that takes the first value for the average
AverageOfFirst(xs, ws) == Frac(xs[1], 1)

\* np.average(xs, weights=ws)
Average(xs, ws) == Frac(Dot(xs, ws), SumSeq(ws))

RECURSIVE SumFrac(_)
SumFrac(fs) ==
    IF fs = <<>> THEN Frac(0, 1)
    ELSE LET t == SumFrac(Tail(fs))
         IN  Frac(fs[1].num * t.den + t.num * fs[1].den, fs[1].den * t.den)

\* np.mean of a list of floats: NaN for the empty list
Mean(fs) ==
    IF fs = <<>> THEN FracNaN
    ELSE Frac(SumFrac(fs).num, SumFrac(fs).den * Len(fs))

\* the sky coordinates of a pixel, averaged over the cadences
PixelRa(p) == 3 * p
PixelDec(p) == 50 - p

\* np.nanmedian(tpf.flux, axis=0) ** 0.5 of a pixel
PixelWeight(p) == IF p = 1 THEN 2 ELSE 1

\* the pipeline's aperture: none, or the whole stamp
PipelineMasks == {{}, Pixels}

\* aper = tpf.pipeline_mask; if not aper.any(): aper = create_threshold_mask()
Aperture(pipeline_mask) ==
    IF pipeline_mask /= {} THEN pipeline_mask ELSE Pixels

\* the pixels a boolean mask selects, in pixel order
Selected(mask) == SelectSeq([p \in 1..NPix |-> p], LAMBDA p : mask[p])

InAper(aper) == Selected([p \in Pixels |-> p \in aper])

\* t_model.sum() == 0: continue
SkipSegment ==
    /\ pc = "loop" /\ idx < ntpfs
    /\ idx' = idx + 1
    /\ skipped' = skipped + 1
    /\ UNCHANGED <<pc, targetid, mission, search_func, calls, sr, err, ntpfs, accumulators,
                   ra, dec, folded, xvars, mvars>>

\* one pass of the loop body for a stamp whose template does not sum to zero
ProcessSegment ==
    /\ pc = "loop" /\ idx < ntpfs
    /\ \E px \in [Pixels -> PixelData], pm \in PipelineMasks :
          LET aper  == InAper(Aperture(pm))
              bm    == BuildModel(px)
              mask  == ContaminantAper(bm.transit_pixels, bm.transit_pixels_err)
              sel   == Selected(mask)
              ratio == [p \in Pixels |->
                           Divide(bm.transit_pixels[p], bm.transit_pixels_err[p])]
              w     == [i \in 1..Len(aper) |-> PixelWeight(aper[i])]
          IN  /\ target' = Append(target, idx + 1)
              /\ coords_ra' =
                    Append(coords_ra, [i \in 1..Len(sel) |-> PixelRa(sel[i])])
              /\ coords_dec' =
                    Append(coords_dec, [i \in 1..Len(sel) |-> PixelDec(sel[i])])
              /\ coords_weights' =
                    Append(coords_weights, [i \in 1..Len(sel) |-> ratio[sel[i]].v])
              /\ contaminator' =
                    IF sel /= <<>> THEN Append(contaminator, idx + 1)
                    ELSE contaminator
              /\ ra_target' =
                    Append(ra_target,
                           Average([i \in 1..Len(aper) |-> PixelRa(aper[i])], w))
              /\ dec_target' =
                    Append(dec_target,
                           Average([i \in 1..Len(aper) |-> PixelDec(aper[i])], w))
    /\ idx' = idx + 1
    /\ UNCHANGED <<pc, targetid, mission, search_func, calls, sr, err, ntpfs, skipped,
                   ra, dec, folded, xvars, mvars>>

\* the solve of build_lc (on the target aperture) raises on a singular matrix
TargetSolveFails ==
    /\ pc = "loop" /\ idx < ntpfs
    /\ idx' = idx + 1
    /\ pc' = "error"
    /\ err' = "LinAlgError: Singular matrix"
    /\ UNCHANGED <<targetid, mission, search_func, calls, sr, ntpfs, skipped, accumulators,
                   ra, dec, folded, xvars, mvars>>

\* the solve of a pixel in build_model raises, after the target light curve
\* was appended
PixelSolveFails ==
    /\ pc = "loop" /\ idx < ntpfs
    /\ idx' = idx + 1
    /\ target' = Append(target, idx + 1)
    /\ pc' = "error"
    /\ err' = "LinAlgError: Singular matrix"
    /\ UNCHANGED <<targetid, mission, search_func, calls, sr, ntpfs, skipped, contaminator,
                   coords_weights, coords_ra, coords_dec, ra_target,
                   dec_target, ra, dec, folded, xvars, mvars>>

\* ============================================ get_centroid_plot: the end
\* np.hstack of an empty list raises; the target means were taken before
FinalizeFails ==
    /\ pc = "loop" /\ idx = ntpfs
    /\ coords_ra = <<>>
    /\ ra_target' = Mean(ra_target)
    /\ dec_target' = Mean(dec_target)
    /\ pc' = "error"
    /\ err' = "ValueError: need at least one array to concatenate"
    /\ UNCHANGED <<targetid, mission, search_func, calls, sr, ntpfs, idx, skipped, target,
                   contaminator, coords_weights, coords_ra, coords_dec,
                   ra, dec, folded, xvars, mvars>>

\* the weighted position, or NaN when no pixel was accumulated; then the figure
Finalize ==
    /\ pc = "loop" /\ idx = ntpfs
    /\ coords_ra /= <<>>
    /\ ra_target' = Mean(ra_target)
    /\ dec_target' = Mean(dec_target)
    /\ IF Len(Flatten(coords_ra)) /= 0
       THEN /\ ra' = Average(Flatten(coords_ra), Flatten(coords_weights))
            /\ dec' = Average(Flatten(coords_dec), Flatten(coords_weights))
       ELSE /\ ra' = FracNaN
            /\ dec' = FracNaN
    /\ folded' = IF contaminator /= <<>> THEN {"target", "contaminator"}
                 ELSE {"target"}
    /\ pc' = "done"
    /\ UNCHANGED <<targetid, mission, search_func, calls, sr, err, ntpfs, idx, skipped,
                   target, contaminator, coords_weights, coords_ra, coords_dec,
                   xvars, mvars>>

Next ==
    \/ SearchReturns \/ SearchRaises
    \/ StartTessCut \/ StartNoStamps \/ StartDownload
    \/ SkipSegment \/ ProcessSegment
    \/ TargetSolveFails \/ PixelSolveFails
    \/ FinalizeFails \/ Finalize

Init ==
    /\ CInit
    /\ targetid \in Queries
    /\ mission \in Missions
    /\ XOff /\ MOff

Spec == Init /\ [][Next]_vars

\* build_model on every stamp of NPix pixels
InitModel ==
    /\ XOff
    /\ CInit /\ targetid = 0 /\ mission = "kepler"
    /\ mpc = "start"
    /\ pixels \in [Pixels -> PixelData]
    /\ margs \in [errors : BOOLEAN, t_model : BOOLEAN]
    /\ jdx = 0
    /\ model = <<>> /\ model_err = <<>> /\ transit_pixels = <<>>
    /\ transit_pixels_err = <<>> /\ returned = <<>> /\ contaminant_aper = <<>>

SpecModel == InitModel /\ [][NextModel]_vars

\* ================================================================== claims
\* ---------------------------------------------------------------- build_X
NCad == Len(tpf.time)

\* the segment-indicator columns of the matrix
IndicatorColumns == {k \in 1..Len(SA) : SA[k].term \in {"ts0", "rs0"}}

\* cadences i and i+1 are more than 10 nominal cadences apart
GapAfter(i) == tpf.time[i + 1] - tpf.time[i] > 10 * NominalCadence

NGaps == Cardinality({i \in 1..(NCad - 1) : GapAfter(i)})

NSeg == Cardinality(breaks) + 1

\* most spacings are the nominal cadence, which is then the median spacing
NominalSpacing ==
    2 * Cardinality({i \in 1..(NCad - 1) :
                        tpf.time[i + 1] - tpf.time[i] = NominalCadence})
        > NCad - 1

\* C1: a time array of nominal cadence with exactly one gap of more than 10
\* cadences, wherever the gap is, gives exactly 2 segments and exactly 2
\* segment-indicator columns.
C1_OneGapTwoSegments ==
    (xpc = "built" /\ NominalSpacing /\ NGaps = 1) =>
        /\ NSeg = 2
        /\ Cardinality(IndicatorColumns) = 2

\* C2: the segments partition the cadences (every cadence is in exactly one
\* segment) and no segment holds two consecutive cadences that a gap separates;
\* stated for the gaps after the second cadence, whose split index is kept.
C2_SegmentsPartitionWithoutGaps ==
    xpc = "built" =>
        /\ \A i \in 1..NCad :
              Cardinality({k \in IndicatorColumns : SA[k].vals[i] /= 0}) = 1
        /\ \A i \in 3..(NCad - 1) :
              GapAfter(i) =>
                  ~ \E k \in IndicatorColumns :
                        SA[k].vals[i] /= 0 /\ SA[k].vals[i + 1] /= 0

\* what cleaning is to make of one pointing-correction entry
CleanedValue(x) == IF x.kind /= "fin" \/ Abs(x.v) > 10 THEN 0 ELSE x.v

\* C3: after cleaning, in both the row-offset and the column-offset array a
\* non-finite entry is 0, an entry of magnitude above 10 is 0, and any other
\* entry is unchanged.
C3_BothOffsetArraysCleaned ==
    xpc \in {"built", "lc"} =>
        \A i \in 1..NCad :
            /\ r[i] = CleanedValue(tpf.pos_corr1[i])
            /\ c[i] = CleanedValue(tpf.pos_corr2[i])

TrendColumns ==
    {k \in 1..Len(SA) : SA[k].term \in {"ts0", "ts1", "ts1**2"}}

MotionColumns ==
    {k \in 1..Len(SA) :
        \E j \in 1..Len(CentroidTerms) : SA[k].term = CentroidTerms[j]}

\* C4: the time-trend block (3 columns a segment) is used exactly when every
\* row and column offset is 0 once non-finite values and outliers are zeroed;
\* otherwise the centroid-motion block (16 columns a segment) is used.
C4_TimeTrendIffUncorrected ==
    xpc = "built" =>
        IF \A i \in 1..NCad : /\ CleanedValue(tpf.pos_corr1[i]) = 0
                              /\ CleanedValue(tpf.pos_corr2[i]) = 0
        THEN Cardinality(TrendColumns) = 3 * NSeg /\ MotionColumns = {}
        ELSE Cardinality(MotionColumns) = 16 * NSeg /\ TrendColumns = {}

NTrailing == IF args.t_model /= <<>> THEN 2 ELSE 1

\* column k is weighted by the flux: each entry is the flux of its cadence
\* times the entry's own 0 or 1, and 1 outside the per-segment blocks
Weighted(k) ==
    \A i \in 1..NCad :
        /\ SA[k].vals[i] \in {0, args.flux[i]}
        /\ SA[k].term \in {"cbv", "bkg", "spline"} => SA[k].vals[i] = args.flux[i]

\* T rows; the systematics columns weighted; then the ones, then the template
Assembled ==
    /\ \A k \in 1..Len(SA) : Len(SA[k].vals) = NCad
    /\ Len(SA) >= NTrailing
    /\ \A k \in 1..(Len(SA) - NTrailing) :
          Weighted(k) /\ SA[k].term \notin {"ones", "t_model"}
    /\ LET last == SA[Len(SA)]
       IN  IF args.t_model /= <<>>
           THEN /\ last.term = "t_model" /\ last.vals = args.t_model
                /\ SA[Len(SA) - 1].term = "ones"
                /\ \A i \in 1..NCad : SA[Len(SA) - 1].vals[i] = 1
           ELSE /\ last.term = "ones"
                /\ \A i \in 1..NCad : last.vals[i] = 1

\* the systematics columns that s segments, the knots and the enabled blocks
\* give, with p columns a segment
SystematicsColumns(p) ==
    p * NSeg + args.cbvs + (IF args.background THEN 3 ELSE 0)
        + (IF args.spline THEN Knots(tpf.time, args.spline_period) ELSE 0)

\* build_lc's matrix: T rows, no ones column
LcMatrix(p) ==
    xpc = "lc" =>
        /\ \A k \in 1..Len(SA) : Len(SA[k].vals) = NCad /\ SA[k].term /= "ones"
        /\ Len(SA) = SystematicsColumns(p)

\* another stamp of as many segments and knots gives as many columns
SameColumnsAs(t2) ==
    (/\ Cardinality(Breaks(t2.time)) + 1 = NSeg
     /\ Knots(t2.time, args.spline_period) = Knots(tpf.time, args.spline_period))
    => Len(BuildX(t2, args.flux, args.t_model, args.background, args.cbvs,
                  args.spline, args.spline_period)) = Len(SA)

\* C5 (as claimed): T rows; the column count a function of the segment count,
\* the knot count and the enabled blocks only; systematics columns weighted by
\* the flux, the appended ones (and template, last) not; build_lc's matrix
\* without the ones column.
C5_ShapeAndAssembly ==
    /\ xpc = "built" =>
          /\ Assembled
          /\ \A t2 \in Stamps(NCad, PlainPairs) : SameColumnsAs(t2)
    /\ LcMatrix(IF UseTimeTrend(r) THEN 3 ELSE 16)

\* C5 (amended): as claimed, but the column count is a function of the
\* segment count, the knot count, the enabled blocks and the per-segment block
\* in use: 3 columns a segment when the cleaned row offsets sum to 0, else 16.
C5_ShapeAndAssemblyByBlock ==
    LET p == IF SumSeq(r) = 0 THEN 3 ELSE 16
    IN  /\ xpc = "built" =>
              /\ Assembled
              /\ Len(SA) = SystematicsColumns(p) + NTrailing
        /\ LcMatrix(p)

\* a weighted two-segment matrix with every block and a template
C5_Witness ==
    /\ xpc = "built" /\ args.t_model /= <<>> /\ args.flux = Ramp(NCad)
    /\ NSeg = 2 /\ SumSeq(r) /= 0
    /\ args.background /\ args.cbvs > 0 /\ args.spline
    /\ Knots(tpf.time, args.spline_period) > MinKnots

\* ------------------------------------------------------------ build_model
\* C9: a pixel with no finite flux is left at zero in the model, the depth and
\* the depth error, whatever the other pixels give; a fitted pixel holds its
\* own fit; and the mask is true at a pixel exactly when depth/error is above 5,
\* so never at a skipped pixel.
C9_SkippedPixelsStayOutOfMask ==
    /\ mpc \in {"loop", "returned", "masked"} =>
          \A p \in 1..jdx :
              /\ ~pixels[p].finite =>
                    /\ model[p] = "zeros"
                    /\ margs.errors => model_err[p] = "zeros"
                    /\ margs.t_model =>
                          transit_pixels[p] = 0 /\ transit_pixels_err[p] = 0
              /\ pixels[p].finite =>
                    /\ model[p] = "SA.dot(w)"
                    /\ margs.t_model =>
                          /\ transit_pixels[p] = pixels[p].fit.depth
                          /\ transit_pixels_err[p] = pixels[p].fit.err
    /\ mpc = "masked" =>
          \A p \in Pixels :
              /\ contaminant_aper[p] <=>
                    /\ transit_pixels_err[p] > 0
                    /\ transit_pixels[p] > 5 * transit_pixels_err[p]
              /\ ~pixels[p].finite => ~contaminant_aper[p]

\* a mask with a pixel in it, beside a skipped pixel
C9_Witness ==
    /\ mpc = "masked"
    /\ \E p, q \in Pixels : ~pixels[p].finite /\ contaminant_aper[q]

\* ------------------------------------------------------ get_centroid_plot
SolveError == "LinAlgError: Singular matrix"

NoStampsError == "ValueError: No target pixel files exist"

\* the segments that went through the loop body
NProcessed == idx - skipped

\* the localizer ran (search alone leaves pc at "returned" or calls empty)
Localizing == pc \in {"loop", "done", "error"} /\ calls /= <<>>

\* C6: a segment whose template sums to zero appends nothing to the light
\* curves or to the coordinate and weight accumulators, and a run that skipped
\* segments still goes through finalization: it ends in an error only when a
\* solve raised.
C6_SkippedSegmentsDoNotAbort ==
    /\ pc = "loop" =>
          /\ Len(coords_ra) = NProcessed /\ Len(coords_dec) = NProcessed
          /\ Len(coords_weights) = NProcessed
          /\ Len(ra_target) = NProcessed /\ Len(dec_target) = NProcessed
          /\ Len(target) = NProcessed /\ Len(contaminator) <= NProcessed
    /\ (pc = "error" /\ skipped > 0) => err = SolveError

\* every stamp went through the loop and no solve raised
AllSegmentsSeen ==
    /\ pc \in {"done", "error"} /\ calls /= <<>>
    /\ ntpfs > 0 /\ idx = ntpfs /\ err /= SolveError

\* x is the mean of the values xs weighted by ws
IsWeightedMean(x, xs, ws) ==
    /\ x /= <<>> /\ x.kind = "fin"
    /\ x.num * SumSeq(ws) = Dot(xs, ws) * x.den

\* C7: once every segment is processed, if no pixel of any segment was in a
\* mask the position is (NaN, NaN), no contaminant light curve exists or is
\* folded, and the run completes; if some pixel was in a mask the position is
\* the significance-weighted mean of the accumulated pixels and a contaminant
\* light curve exists.
C7_NoContaminationOutcome ==
    AllSegmentsSeen =>
        /\ pc = "done"
        /\ IF Flatten(coords_weights) = <<>>
           THEN /\ ra = FracNaN /\ dec = FracNaN
                /\ contaminator = <<>> /\ "contaminator" \notin folded
           ELSE /\ IsWeightedMean(ra, Flatten(coords_ra), Flatten(coords_weights))
                /\ IsWeightedMean(dec, Flatten(coords_dec), Flatten(coords_weights))
                /\ contaminator /= <<>> /\ "contaminator" \in folded

\* search raises for a function that is not one of the two it knows, and
\* returns for the two
SearchRejectsUnknown ==
    /\ pc = "returned" =>
          search_func \in {"search_targetpixelfile", "search_tesscut"}
    /\ search_func \notin {"", "search_targetpixelfile", "search_tesscut"} =>
          pc = "error" /\ err = "ValueError: Search Function is wrong"

\* C8 (as claimed): for every mission, a search that returns no stamp makes
\* the localizer raise at once, before any segment, with no other lookup; and
\* search raises for an unknown search function.
C8_ZeroStampsFatal ==
    /\ (Localizing /\ sr = <<>>) =>
          /\ pc = "error" /\ err = NoStampsError /\ idx = 0
          /\ calls = <<"search_targetpixelfile">>
    /\ SearchRejectsUnknown

\* C8 (amended): for a mission other than TESS a search that returns no stamp
\* makes the localizer raise at once, before any segment, with no other
\* lookup; for TESS, in any letter case, the cutout search is tried instead and
\* the run fails before any segment only if that finds nothing either; and
\* search raises for an unknown search function.
C8_ZeroStampsFatalUnlessTess ==
    /\ (Localizing /\ sr = <<>>) =>
          IF mission \in {"tess", "TESS"}
          THEN /\ calls = <<"search_targetpixelfile", "search_tesscut">>
               /\ err /= NoStampsError
               /\ ntpfs = 0 => pc = "error" /\ idx = 0
          ELSE /\ pc = "error" /\ err = NoStampsError /\ idx = 0
               /\ calls = <<"search_targetpixelfile">>
    /\ SearchRejectsUnknown

\* no stamp for a Kepler target: the lookup error
C8_Witness ==
    /\ pc = "error" /\ sr = <<>> /\ mission = "kepler"
    /\ calls = <<"search_targetpixelfile">> /\ err = NoStampsError

\* the orders in which n segments can be processed
Orders(n) ==
    {f \in [1..n -> 1..n] : \A i, j \in 1..n : i /= j => f[i] /= f[j]}

\* the accumulated lists, had the segments come in the order f
Reordered(list, f) == [k \in 1..Len(list) |-> list[f[k]]]

\* C10: in the loop the three contaminant accumulators hold as many entries,
\* of matching lengths; the two target accumulators hold one entry for each
\* segment not skipped; the target light curve is set iff a segment was not
\* skipped; the contaminant light curve is set only if the target's is and
\* some entry is not empty; and the final weighted position is what any other
\* order of the segments gives.
C10_AccumulatorsConsistent ==
    /\ pc = "loop" =>
          /\ Len(coords_ra) = Len(coords_dec)
          /\ Len(coords_ra) = Len(coords_weights)
          /\ \A k \in 1..Len(coords_ra) :
                /\ Len(coords_ra[k]) = Len(coords_weights[k])
                /\ Len(coords_dec[k]) = Len(coords_weights[k])
                /\ Len(coords_ra[k]) <= NPix
          /\ Len(ra_target) = NProcessed /\ Len(dec_target) = NProcessed
          /\ target /= <<>> <=> NProcessed > 0
          /\ contaminator /= <<>> =>
                /\ target /= <<>>
                /\ \E k \in 1..Len(coords_weights) : coords_weights[k] /= <<>>
    /\ (pc = "done" /\ Flatten(coords_weights) /= <<>>) =>
          \A f \in Orders(Len(coords_ra)) :
              LET ws == Flatten(Reordered(coords_weights, f))
              IN  /\ IsWeightedMean(ra, Flatten(Reordered(coords_ra, f)), ws)
                  /\ IsWeightedMean(dec, Flatten(Reordered(coords_dec, f)), ws)

\* a position from two segments with different masked pixels
C10_Witness ==
    /\ pc = "done" /\ Len(coords_ra) = 2
    /\ coords_ra[1] /= <<>> /\ coords_ra[2] /= <<>>
    /\ coords_ra[1] /= coords_ra[2]

====
